---- MODULE Spec2Model ----
(***************************************************************************)
(* Lineage resolution of Swedish geographic codes (SWE_geo).               *)
(*                                                                         *)
(*   utils.py            read_geo_changes, create_children_graph,          *)
(*                       find_current_geo                                  *)
(*   find_current_geo.py main: the batch loop over geo_year.csv            *)
(*                                                                         *)
(* Codes are strings.  Dates are integers: a larger integer is a later     *)
(* day; only their order is used by the code (v >= date).  The change type *)
(* column is carried by the edges in the source but read by no code that   *)
(* is modelled here, so rows and edges carry (old, new, date) only.        *)
(***************************************************************************)
EXTENDS Integers, Sequences, FiniteSets, TLC

VARIABLES
    pc,              \* position of the running main()
    graph,           \* the graph handed to find_current_geo
    geo_in_shp,      \* the array of current codes handed to find_current_geo
    node,            \* the queried code
    date,            \* the query date
    subgraph_nodes,  \* find_current_geo's candidate set
    current,         \* find_current_geo's return value
    raised,          \* TRUE when find_current_geo raised ValueError
    graph_kommun,    \* batch: municipality graph
    graph_laen,      \* batch: county graph
    kommuner_in_shp, \* batch: current municipality codes
    laen_in_shp,     \* batch: current county codes
    geo_year_csv,    \* batch: the rows of geo_year.csv as written in the file
    ar_geo_year,     \* batch: what np.loadtxt returned for geo_year.csv
    idx,             \* batch: number of elements of ar_geo_year consumed
    f                \* batch: the lines printed to geo_year_current.txt

vars == <<pc, graph, geo_in_shp, node, date, subgraph_nodes, current, raised,
          graph_kommun, graph_laen, kommuner_in_shp, laen_in_shp,
          geo_year_csv, ar_geo_year, idx, f>>

findVars == <<graph, geo_in_shp, node, date, subgraph_nodes, current, raised>>
batchVars == <<graph_kommun, graph_laen, kommuner_in_shp, laen_in_shp,
               geo_year_csv, ar_geo_year, idx, f>>

---------------------------------------------------------------------------
(* Bounds *)

MaxEdges == 2      \* rows of a change log
MaxDate == 2       \* effective dates are 1..MaxDate
MaxCurrent == 2    \* lines of a current-code file
MaxQueries == 3    \* rows of geo_year.csv

Dates == 1..MaxDate
QueryDates == 1..(MaxDate + 1)

\* The codes of the single-query universe.
Codes == {"0101", "0102", "0103"}

\* Every code of the model, in Python's string order (what numpy's sort uses).
SortedCodes == <<"01", "0101", "010101", "0102", "0103", "0199", "02", "03">>

Rank(c) == CHOOSE i \in 1..Len(SortedCodes) : SortedCodes[i] = c

Range(s) == {s[i] : i \in 1..Len(s)}

SeqsUpTo(S, n) == UNION {[1..k -> S] : k \in 0..n}

---------------------------------------------------------------------------
(* Change log and graph construction *)

\* A change record replaces a code by a different one, on a date.
ChangeRows(codes) ==
    {r \in [old : codes, new : codes, date : Dates] : r.old # r.new}

\* DataFrame.sort_values(["Datum ikrafttraedande"]): ascending by date.
RECURSIVE SortValues(_)
SortValues(rows) ==
    IF rows = <<>> THEN <<>>
    ELSE LET m == CHOOSE i \in 1..Len(rows) :
                    /\ \A j \in 1..Len(rows) : rows[i].date <= rows[j].date
                    /\ \A j \in 1..(i - 1) : rows[j].date > rows[i].date
             rest == [k \in 1..(Len(rows) - 1) |->
                          IF k < m THEN rows[k] ELSE rows[k + 1]]
         IN  <<rows[m]>> \o SortValues(rest)

read_geo_changes(fp_chg) == SortValues(fp_chg)

EmptyGraph == [nodes |-> {}, edges |-> {}]

\* MultiDiGraph.add_edge(u, v, **attr): the key of a new edge is the number
\* of edges u -> v already present.
add_edge(G, u, v, d) ==
    LET key == Cardinality({e \in G.edges : e.u = u /\ e.v = v})
    IN  [nodes |-> G.nodes \cup {u, v},
         edges |-> G.edges \cup {[u |-> u, v |-> v, key |-> key, date |-> d]}]

\* nx.from_pandas_edgelist(df, source, target, edge_attr, MultiDiGraph()).
RECURSIVE from_pandas_edgelist(_)
from_pandas_edgelist(df) ==
    IF df = <<>> THEN EmptyGraph
    ELSE LET n == Len(df)
             G == from_pandas_edgelist(SubSeq(df, 1, n - 1))
         IN  add_edge(G, df[n].old, df[n].new, df[n].date)

---------------------------------------------------------------------------
(* numpy helpers *)

\* np.unique: the sorted distinct values.
RECURSIVE SortSet(_)
SortSet(S) ==
    IF S = {} THEN <<>>
    ELSE LET m == CHOOSE x \in S : \A y \in S : Rank(x) <= Rank(y)
         IN  <<m>> \o SortSet(S \ {m})

\* ndarray.sort() of a 1-D array (insertion into the sorted tail).
Insert(x, s) ==
    LET k == Cardinality({i \in 1..Len(s) : Rank(s[i]) <= Rank(x)})
    IN  SubSeq(s, 1, k) \o <<x>> \o SubSeq(s, k + 1, Len(s))

RECURSIVE ndarray_sort(_)
ndarray_sort(s) == IF s = <<>> THEN <<>> ELSE Insert(Head(s), ndarray_sort(Tail(s)))

\* aux[:-1][aux[1:] == aux[:-1]]
RECURSIVE Masked(_, _)
Masked(aux, i) ==
    IF i >= Len(aux) THEN <<>>
    ELSE (IF aux[i + 1] = aux[i] THEN <<aux[i]>> ELSE <<>>) \o Masked(aux, i + 1)

\* np.intersect1d(ar1, ar2): both made unique, concatenated, sorted; the
\* values that occur twice in a row are the common ones.
intersect1d(ar1, ar2) ==
    LET u1 == SortSet(ar1)
        u2 == SortSet(Range(ar2))
    IN  Masked(ndarray_sort(u1 \o u2), 1)

---------------------------------------------------------------------------
(* utils.py: create_children_graph and find_current_geo *)

\* nx.single_source_shortest_path_length(G, source).keys(): breadth first.
RECURSIVE bfs(_, _, _)
bfs(G, seen, level) ==
    IF level = {} THEN seen
    ELSE LET found == {e.v : e \in {x \in G.edges : x.u \in level}} \ seen
         IN  bfs(G, seen \cup found, found)

\* Variant: reachability that ignores the direction of the edges.
RECURSIVE bfs_undirected(_, _, _)
bfs_undirected(G, seen, level) ==
    IF level = {} THEN seen
    ELSE LET found == ({e.v : e \in {x \in G.edges : x.u \in level}}
                       \cup {e.u : e \in {x \in G.edges : x.v \in level}}) \ seen
         IN  bfs_undirected(G, seen \cup found, found)

WeaklyConnected(G, source) == bfs_undirected(G, {source}, {source})

single_source_shortest_path_length(G, source) == bfs(G, {source}, {source})

\* Variant: an edge dated on the query date does not count.
FutureEdgesStrict(G, children_name, d) ==
    {e \in G.edges : e.u \in children_name /\ e.v \in children_name /\ e.date > d}

\* Variant: the edges of the whole graph instead of the descendants' subgraph.
FutureEdgesWholeGraph(G, children_name, d) ==
    {e \in G.edges : e.date >= d}

\* The keys of get_edge_attributes(graph.subgraph(children_name), date) whose
\* value is >= date.
future_edges(G, children_name, d) ==
    {e \in G.edges : e.u \in children_name /\ e.v \in children_name /\ e.date >= d}

\* nx.edge_subgraph(G, edges): the edges and their endpoints.
edge_subgraph(G, edges) ==
    [nodes |-> {e.u : e \in edges} \cup {e.v : e \in edges}, edges |-> edges]

\* Returns [found, subgraph]; found = FALSE stands for nx.NodeNotFound.
create_children_graph(G, n, d) ==
    IF n \notin G.nodes
    THEN [found |-> FALSE, subgraph |-> EmptyGraph]
    ELSE LET children_name == single_source_shortest_path_length(G, n)
         IN  [found |-> TRUE,
              subgraph |-> edge_subgraph(G, future_edges(G, children_name, d))]

\* The outcome of a call: the two arguments passed by reference as the call
\* leaves them, the candidate set, the returned array, and whether ValueError
\* was raised (then nothing is returned and current is <<>>).
Outcome(G, all_current, nodes, cur, err) ==
    [graph |-> G, all_current |-> all_current,
     subgraph_nodes |-> nodes, current |-> cur, raised |-> err]

\* Variant: a node absent from the graph is taken as current without a check.
FindCurrentGeoNoCheck(G, n, d, all_current) ==
    LET sub == create_children_graph(G, n, d)
    IN  IF sub.found
        THEN LET nodes == IF sub.subgraph.nodes = {} THEN {n}
                          ELSE sub.subgraph.nodes
             IN  Outcome(G, all_current, nodes,
                         intersect1d(nodes, all_current), FALSE)
        ELSE Outcome(G, all_current, {n}, intersect1d({n}, all_current), FALSE)

\* Variant: an empty subgraph is not replaced by the node itself.
FindCurrentGeoNoFallback(G, n, d, all_current) ==
    LET sub == create_children_graph(G, n, d)
    IN  IF sub.found
        THEN Outcome(G, all_current, sub.subgraph.nodes,
                     intersect1d(sub.subgraph.nodes, all_current), FALSE)
        ELSE IF n \in Range(all_current)
             THEN Outcome(G, all_current, {n},
                          intersect1d({n}, all_current), FALSE)
             ELSE Outcome(G, all_current, {}, <<>>, TRUE)

\* Variant: the node of an empty subgraph is returned without the intersection.
FindCurrentGeoFallbackUnchecked(G, n, d, all_current) ==
    LET sub == create_children_graph(G, n, d)
    IN  IF sub.found
        THEN IF sub.subgraph.nodes = {}
             THEN Outcome(G, all_current, {n}, <<n>>, FALSE)
             ELSE Outcome(G, all_current, sub.subgraph.nodes,
                          intersect1d(sub.subgraph.nodes, all_current), FALSE)
        ELSE IF n \in Range(all_current)
             THEN Outcome(G, all_current, {n},
                          intersect1d({n}, all_current), FALSE)
             ELSE Outcome(G, all_current, {}, <<>>, TRUE)

\* Variant: the edges older than the query date are removed from the graph
\* itself instead of being left out of a view.
FindCurrentGeoPruning(G, n, d, all_current) ==
    LET sub == create_children_graph(G, n, d)
        pruned == [nodes |-> G.nodes, edges |-> {e \in G.edges : e.date >= d}]
    IN  IF sub.found
        THEN LET nodes == IF sub.subgraph.nodes = {} THEN {n}
                          ELSE sub.subgraph.nodes
             IN  Outcome(pruned, all_current, nodes,
                         intersect1d(nodes, all_current), FALSE)
        ELSE IF n \in Range(all_current)
             THEN Outcome(G, all_current, {n},
                          intersect1d({n}, all_current), FALSE)
             ELSE Outcome(G, all_current, {}, <<>>, TRUE)

find_current_geo(G, n, d, all_current) ==
    LET sub == create_children_graph(G, n, d)
    IN  IF sub.found
        THEN LET nodes == IF sub.subgraph.nodes = {} THEN {n}
                          ELSE sub.subgraph.nodes
             IN  Outcome(G, all_current, nodes,
                         intersect1d(nodes, all_current), FALSE)
        ELSE IF n \in Range(all_current)
             THEN Outcome(G, all_current, {n},
                          intersect1d({n}, all_current), FALSE)
             ELSE Outcome(G, all_current, {}, <<>>, TRUE)

---------------------------------------------------------------------------
(* Single queries: find_current_geo called on a loaded graph *)

NoBatch ==
    /\ graph_kommun = EmptyGraph
    /\ graph_laen = EmptyGraph
    /\ kommuner_in_shp = <<>>
    /\ laen_in_shp = <<>>
    /\ geo_year_csv = <<>>
    /\ ar_geo_year = <<>>
    /\ idx = 0
    /\ f = <<>>

Init ==
    /\ pc = "loaded"
    /\ \E fp_chg \in SeqsUpTo(ChangeRows(Codes), MaxEdges) :
           graph = from_pandas_edgelist(read_geo_changes(fp_chg))
    /\ geo_in_shp \in SeqsUpTo(Codes, MaxCurrent)
    /\ node = ""
    /\ date = 0
    /\ subgraph_nodes = {}
    /\ current = <<>>
    /\ raised = FALSE
    /\ NoBatch

\* utils.main: one call of find_current_geo per run; a ValueError propagates.
Query ==
    /\ pc = "loaded"
    /\ \E n \in Codes, d \in QueryDates :
        LET r == find_current_geo(graph, n, d, geo_in_shp)
        IN  /\ pc' = IF r.raised THEN "raised" ELSE "returned"
            /\ graph' = r.graph
            /\ geo_in_shp' = r.all_current
            /\ node' = n
            /\ date' = d
            /\ subgraph_nodes' = r.subgraph_nodes
            /\ current' = r.current
            /\ raised' = r.raised
            /\ UNCHANGED batchVars

Next == Query

Spec == Init /\ [][Next]_vars

---------------------------------------------------------------------------
(* Batch mode: find_current_geo.py main *)

KommunChain == <<[old |-> "0101", new |-> "0102", date |-> 1],
                 [old |-> "0102", new |-> "0103", date |-> 2]>>
LaenSplit == <<[old |-> "01", new |-> "02", date |-> 2],
               [old |-> "01", new |-> "03", date |-> 2]>>

BatchKommunLogs == {<<>>, KommunChain}
BatchLaenLogs == {<<>>, LaenSplit}
BatchKommunCurrent == {<<"0103">>, <<"0103", "0199">>}
BatchLaenCurrent == {<<"02", "03">>}

\* First column of geo_year.csv as written, and the dates of the second.
BatchCodes == {"101", "0199", "1", "10101"}
BatchYears == {1, 3}

Digits == {"0", "1", "2", "3", "4", "5", "6", "7", "8", "9"}

\* str.zfill(width) of a digit string: zeros on the left up to width.
RECURSIVE zfill(_, _)
zfill(s, width) == IF Len(s) >= width THEN s ELSE zfill("0" \o s, width)

\* Variant: a zero is put in front of every code.
ConverterPadAll(s) == "0" \o s

\* converters={0: lambda s: s.zfill(len(s) + 1 if len(s) % 2 == 1 else len(s))}
converter(s) == zfill(s, IF Len(s) % 2 = 1 THEN Len(s) + 1 ELSE Len(s))

\* np.loadtxt(dtype=str, delimiter=",", converters=...): the converted rows;
\* with the default ndmin a file of one row comes back squeezed to the 1-D
\* array of its two fields, an empty file as an empty array.
loadtxt(rows) ==
    [ndim |-> IF Len(rows) = 1 THEN 1 ELSE 2,
     data |-> [i \in 1..Len(rows) |->
                  [node |-> converter(rows[i].node), year |-> rows[i].year]]]

\* Number of elements the for loop iterates over.
Size(ar) == IF ar.ndim = 1 THEN 2 ELSE Len(ar.data)

\* "for node, year in ar_geo_year": a row of a 2-D array unpacks into its two
\* fields; an element of a 1-D array is one string, which unpacks only when it
\* has exactly two characters.  The text of a date has at least four.
Unpack(ar, i) ==
    IF ar.ndim = 2
    THEN [ok |-> TRUE, node |-> ar.data[i].node, year |-> ar.data[i].year]
    ELSE IF i = 1 /\ Len(ar.data[1].node) = 2
         THEN LET p == CHOOSE p \in Digits \X Digits :
                           p[1] \o p[2] = ar.data[1].node
              IN  [ok |-> TRUE, node |-> p[1], year |-> p[2]]
         ELSE [ok |-> FALSE, node |-> "", year |-> ""]

InitBatch ==
    /\ pc = "loop"
    /\ \E log \in BatchKommunLogs :
           graph_kommun = from_pandas_edgelist(read_geo_changes(log))
    /\ \E log \in BatchLaenLogs :
           graph_laen = from_pandas_edgelist(read_geo_changes(log))
    /\ kommuner_in_shp \in BatchKommunCurrent
    /\ laen_in_shp \in BatchLaenCurrent
    /\ geo_year_csv \in SeqsUpTo([node : BatchCodes, year : BatchYears], MaxQueries)
    /\ ar_geo_year = loadtxt(geo_year_csv)
    /\ idx = 0
    /\ f = <<>>
    /\ graph = EmptyGraph
    /\ geo_in_shp = <<>>
    /\ node = ""
    /\ date = 0
    /\ subgraph_nodes = {}
    /\ current = <<>>
    /\ raised = FALSE

\* Variant: the ValueError is not caught and ends the run.
ResolveNoCatch(G, n, year, shp) ==
    LET r == find_current_geo(G, n, year, shp)
    IN  /\ pc' = IF r.raised THEN "crashed" ELSE "loop"
        /\ graph' = r.graph
        /\ geo_in_shp' = r.all_current
        /\ node' = n
        /\ date' = year
        /\ subgraph_nodes' = r.subgraph_nodes
        /\ raised' = r.raised
        /\ current' = r.current
        /\ f' = IF r.raised THEN f
                ELSE Append(f, [node |-> n, year |-> year, current |-> r.current])
        /\ idx' = idx + 1

\* try: current = find_current_geo(...)  except ValueError: current = np.array([])
\* followed by print(node, year, current, file=f).
Resolve(G, n, year, shp) ==
    LET r == find_current_geo(G, n, year, shp)
        cur == IF r.raised THEN <<>> ELSE r.current
    IN  /\ pc' = "loop"
        /\ graph' = r.graph
        /\ geo_in_shp' = r.all_current
        /\ node' = n
        /\ date' = year
        /\ subgraph_nodes' = r.subgraph_nodes
        /\ raised' = r.raised
        /\ current' = cur
        /\ f' = Append(f, [node |-> n, year |-> year, current |-> cur])
        /\ idx' = idx + 1

LoopKommun ==
    /\ pc = "loop"
    /\ idx < Size(ar_geo_year)
    /\ LET u == Unpack(ar_geo_year, idx + 1)
       IN  /\ u.ok
           /\ Len(u.node) = 4
           /\ Resolve(graph_kommun, u.node, u.year, kommuner_in_shp)
           /\ graph_kommun' = graph'
           /\ kommuner_in_shp' = geo_in_shp'
    /\ UNCHANGED <<graph_laen, laen_in_shp, geo_year_csv, ar_geo_year>>

LoopLaen ==
    /\ pc = "loop"
    /\ idx < Size(ar_geo_year)
    /\ LET u == Unpack(ar_geo_year, idx + 1)
       IN  /\ u.ok
           /\ Len(u.node) = 2
           /\ Resolve(graph_laen, u.node, u.year, laen_in_shp)
           /\ graph_laen' = graph'
           /\ laen_in_shp' = geo_in_shp'
    /\ UNCHANGED <<graph_kommun, kommuner_in_shp, geo_year_csv, ar_geo_year>>

\* else: continue
LoopSkip ==
    /\ pc = "loop"
    /\ idx < Size(ar_geo_year)
    /\ LET u == Unpack(ar_geo_year, idx + 1)
       IN  /\ u.ok
           /\ Len(u.node) \notin {2, 4}
           /\ node' = u.node
    /\ idx' = idx + 1
    /\ UNCHANGED <<pc, graph, geo_in_shp, date, subgraph_nodes, current, raised,
                   graph_kommun, graph_laen, kommuner_in_shp, laen_in_shp,
                   geo_year_csv, ar_geo_year, f>>

\* The unpacking of the loop header raises ValueError outside the try block.
LoopUnpackError ==
    /\ pc = "loop"
    /\ idx < Size(ar_geo_year)
    /\ ~Unpack(ar_geo_year, idx + 1).ok
    /\ pc' = "crashed"
    /\ UNCHANGED <<findVars, batchVars>>

\* The loop is exhausted and the with block closes the report.
LoopEnd ==
    /\ pc = "loop"
    /\ idx = Size(ar_geo_year)
    /\ pc' = "done"
    /\ UNCHANGED <<findVars, batchVars>>

NextBatch == LoopKommun \/ LoopLaen \/ LoopSkip \/ LoopUnpackError \/ LoopEnd

SpecBatch == InitBatch /\ [][NextBatch]_vars

---------------------------------------------------------------------------
(* Properties of find_current_geo, stated on the outcome of the call *)

Called == pc \in {"returned", "raised"}
InGraph == node \in graph.nodes
CurrentSet == Range(geo_in_shp)
NoDuplicates(s) == \A i, j \in 1..Len(s) : s[i] = s[j] => i = j

\* b is reached from a by a directed path of at most k edges of E.
RECURSIVE PathWithin(_, _, _, _)
PathWithin(E, a, b, k) ==
    \/ a = b
    \/ k > 0 /\ \E e \in E : e.u = a /\ PathWithin(E, e.v, b, k - 1)

Descendant(c) == PathWithin(graph.edges, node, c, Cardinality(graph.nodes))

\* The edges between descendants of the queried node dated on or after the
\* query date.
QualifyingEdges ==
    {e \in graph.edges : Descendant(e.u) /\ Descendant(e.v) /\ e.date >= date}

Endpoints(E) == {e.u : e \in E} \cup {e.v : e \in E}

\* C1: a queried node that is not in the graph is returned as {node} when it
\* is a current code and raises ValueError, returning nothing, when it is not;
\* the query date plays no part.
C1_AbsentNode ==
    (Called /\ ~InGraph) =>
        IF node \in CurrentSet
        THEN pc = "returned" /\ ~raised /\ current = <<node>>
        ELSE pc = "raised" /\ raised /\ current = <<>>

C1_Witness ==
    /\ pc = "raised"
    /\ ~InGraph
    /\ graph.edges # {}
    /\ geo_in_shp # <<>>

\* C2 as stated: with the node in the graph and no qualifying edge the result
\* is {node} whether or not node is a current code.
C2_FallbackUnconditional ==
    (Called /\ InGraph /\ QualifyingEdges = {}) =>
        (~raised /\ current = <<node>>)

\* C2 amended: with the node in the graph and no qualifying edge the candidate
\* set is {node} and the result is its intersection with the current codes:
\* {node} when node is a current code, empty when it is not.
C2_FallbackIntersected ==
    (Called /\ InGraph /\ QualifyingEdges = {}) =>
        /\ ~raised
        /\ subgraph_nodes = {node}
        /\ current = IF node \in CurrentSet THEN <<node>> ELSE <<>>

\* An edge node -> x dated before the query, x current and node not.
C2_Witness ==
    /\ pc = "returned"
    /\ QualifyingEdges = {}
    /\ node \notin CurrentSet
    /\ \E e \in graph.edges : e.u = node /\ e.date < date /\ e.v \in CurrentSet
    /\ current = <<>>

\* C3: every returned code is a current code, whichever branch produced the
\* result; the result has no duplicates; a node of the graph never raises,
\* so an empty result is returned as such.
C3_ResultIsCurrent ==
    /\ (Called /\ ~raised) =>
           /\ Range(current) \subseteq CurrentSet
           /\ NoDuplicates(current)
    /\ (Called /\ InGraph) => pc = "returned"
    /\ (Called /\ raised) => ~InGraph

C3_Witness ==
    /\ pc = "returned"
    /\ InGraph
    /\ QualifyingEdges # {}
    /\ current = <<>>
    /\ ~NoDuplicates(geo_in_shp)

\* C4: a current code without outgoing edge, absent from the graph or a node
\* with incoming edges only, resolves to exactly itself at every date.
C4_CurrentLeaf ==
    (Called /\ node \in CurrentSet /\ ~\E e \in graph.edges : e.u = node) =>
        (pc = "returned" /\ current = <<node>>)

C4_Witness ==
    /\ pc = "returned"
    /\ node \in CurrentSet
    /\ ~\E e \in graph.edges : e.u = node
    /\ \E e \in graph.edges : e.v = node /\ e.date >= date /\ e.u \in CurrentSet
    /\ current = <<node>>

\* C8: with the node in the graph and a qualifying edge, the candidate set is
\* the set of endpoints of the qualifying edges and the result is exactly its
\* intersection with the current codes.
C8_EdgeInducedResult ==
    (Called /\ InGraph /\ QualifyingEdges # {}) =>
        /\ ~raised
        /\ subgraph_nodes = Endpoints(QualifyingEdges)
        /\ Range(current) = Endpoints(QualifyingEdges) \cap CurrentSet

\* A -> B before the query date, B -> C on it: the queried node is no candidate.
C8_Witness ==
    /\ pc = "returned"
    /\ InGraph
    /\ node \notin subgraph_nodes
    /\ \E e \in QualifyingEdges : e.date = date
    /\ \E e \in graph.edges : e.u = node /\ e.date < date
    /\ current # <<>>

AfterDateEdges == {e \in graph.edges : e.date >= date}

\* C9 as stated: every candidate is the queried node or the end of a path from
\* it whose edges are all dated on or after the query date.
C9_OnlyAfterDatePaths ==
    (Called /\ InGraph /\ QualifyingEdges # {}) =>
        \A c \in subgraph_nodes \cup Range(current) :
            PathWithin(AfterDateEdges, node, c, Cardinality(graph.nodes))

\* C9 amended: every candidate is a descendant of the queried node, by a path
\* whose edges may have any date, and is an endpoint of an edge between
\* descendants dated on or after the query date; a code with no such edge is
\* no candidate.
C9_DescendantOnAfterDateEdge ==
    (Called /\ InGraph /\ QualifyingEdges # {}) =>
        \A c \in subgraph_nodes \cup Range(current) :
            /\ Descendant(c)
            /\ \E e \in QualifyingEdges : c \in {e.u, e.v}

C9_Witness ==
    /\ pc = "returned"
    /\ InGraph
    /\ \E c \in Range(current) :
           /\ ~PathWithin(AfterDateEdges, node, c, Cardinality(graph.nodes))
           /\ Descendant(c)
    /\ \E c \in graph.nodes : Descendant(c) /\ c \notin subgraph_nodes

---------------------------------------------------------------------------
(* Properties of the batch loop *)

Rows == ar_geo_year.data

Dispatchable(row) == Len(row.node) \in {2, 4}

\* The i-th (node, year) the loop header produced.
Read(i) == Unpack(ar_geo_year, i)

\* A query resolved on its own against the pair its length selects.
Alone(row) ==
    IF Len(row.node) = 4
    THEN find_current_geo(graph_kommun, row.node, row.year, kommuner_in_shp)
    ELSE find_current_geo(graph_laen, row.node, row.year, laen_in_shp)

ExpectedLine(row) ==
    [node |-> row.node, year |-> row.year,
     current |-> IF Alone(row).raised THEN <<>> ELSE Alone(row).current]

\* Number of report lines due for the first k queries the loop read.
LinesFor(k) == Cardinality({i \in 1..k : Dispatchable(Read(i))})

Idempotent ==
    \A i, j \in 1..Len(f) :
        (f[i].node = f[j].node /\ f[i].year = f[j].year) =>
            f[i].current = f[j].current

\* C5: no resolution, whatever its outcome, changes a graph or a list of
\* current codes, and two report lines of the same (node, date) carry the same
\* result however many other queries were resolved in between.
C5_ReadOnly ==
    [][/\ graph_kommun' = graph_kommun
       /\ graph_laen' = graph_laen
       /\ kommuner_in_shp' = kommuner_in_shp
       /\ laen_in_shp' = laen_in_shp
       /\ Idempotent']_vars

\* The same query before and after another one, against a graph with history,
\* with a failing query among them.
C5_Witness ==
    /\ Len(f) >= 3
    /\ f[1].node = f[3].node
    /\ f[1].year = f[3].year
    /\ f[2].node # f[1].node
    /\ graph_kommun.edges # {}
    /\ f[1].year > 1
    /\ f[1].node = "0101"
    /\ f[2].node = "0199"
    /\ "0199" \notin Range(kommuner_in_shp)

\* C6: a query whose resolution raises the unknown-unit error leaves the run
\* in the loop and gets a report line with the empty result; every query read
\* after it gets the line it gets when resolved on its own; the loop ends
\* only when every element was consumed.
C6_ErrorDoesNotAbort ==
    /\ raised => pc # "crashed"
    /\ \A i \in 1..idx :
          (Dispatchable(Read(i)) /\ Alone(Read(i)).raised) =>
              /\ LinesFor(i) <= Len(f)
              /\ f[LinesFor(i)] =
                     [node |-> Read(i).node, year |-> Read(i).year,
                      current |-> <<>>]
              /\ \A j \in (i + 1)..idx :
                    Dispatchable(Read(j)) =>
                        /\ LinesFor(j) <= Len(f)
                        /\ f[LinesFor(j)] = ExpectedLine(Read(j))
    /\ pc = "done" => idx = Size(ar_geo_year)

\* A failing query followed by one with a non-empty result, both reported.
C6_Witness ==
    /\ pc = "done"
    /\ Len(f) >= 2
    /\ raised = FALSE
    /\ Alone(Rows[1]).raised
    /\ f[1].current = <<>>
    /\ f[2].current # <<>>
    /\ f[2] = ExpectedLine(Rows[2])

Keys(lines) == [i \in 1..Len(lines) |-> <<lines[i].node, lines[i].year>>]

RECURSIVE DispatchKeys(_)
DispatchKeys(rows) ==
    IF rows = <<>> THEN <<>>
    ELSE (IF Dispatchable(Head(rows))
          THEN <<<<Head(rows).node, Head(rows).year>>>> ELSE <<>>)
         \o DispatchKeys(Tail(rows))

\* C7: the report holds one line per query whose padded code has length 4 or
\* 2, in input order, nothing for the other queries, and no query raises an
\* error.
C7_OneLinePerQueryInOrder ==
    /\ pc # "crashed"
    /\ ar_geo_year.ndim = 2 => Keys(f) = DispatchKeys(SubSeq(Rows, 1, idx))
    /\ pc = "done" => Keys(f) = DispatchKeys(Rows)

\* What holds of the code: C7 for every input that has not exactly one row.
C7_ExceptSingleRow ==
    Len(geo_year_csv) # 1 =>
        /\ pc # "crashed"
        /\ Keys(f) = DispatchKeys(SubSeq(Rows, 1, idx))
        /\ pc = "done" => Keys(f) = DispatchKeys(Rows)

\* C10: every code of the input gets one zero in front when its length is odd
\* and is left alone when it is even; a resolved code of length 4 was resolved
\* against the municipality graph and list, one of length 2 against the
\* county graph and list.
C10_PadAndDispatch ==
    /\ Len(Rows) = Len(geo_year_csv)
    /\ \A i \in 1..Len(Rows) :
          LET raw == geo_year_csv[i].node
          IN  /\ Rows[i].node = IF Len(raw) % 2 = 1 THEN "0" \o raw ELSE raw
              /\ Len(Rows[i].node) % 2 = 0
              /\ Rows[i].year = geo_year_csv[i].year
    /\ Len(node) = 4 =>
          /\ graph = graph_kommun
          /\ geo_in_shp = kommuner_in_shp
          /\ f # <<>>
          /\ f[Len(f)] = [node |-> node, year |-> date, current |-> current]
    /\ Len(node) = 2 =>
          /\ graph = graph_laen
          /\ geo_in_shp = laen_in_shp
          /\ f # <<>>
          /\ f[Len(f)] = [node |-> node, year |-> date, current |-> current]

\* A padded code resolved against one pair that the other pair would have
\* answered differently.
C10_Witness ==
    /\ pc = "loop"
    /\ idx >= 1
    /\ geo_year_csv[idx].node = "101"
    /\ node = "0101"
    /\ graph = graph_kommun
    /\ graph_kommun # graph_laen
    /\ current # <<>>
    /\ find_current_geo(graph_laen, node, date, laen_in_shp).raised

====
